---- MODULE Spec2Model ----
(***************************************************************************)
(* Thumbnail generator (src/App.tsx): the text-overlay scene, the pointer  *)
(* driven drag / resize sessions, the debounced height recomputation, the  *)
(* AI request flow and the export to a canvas, as one state machine.       *)
(*                                                                         *)
(* Units.  Pixel quantities of the source are JavaScript doubles.  Here:   *)
(*   - fontSize, width, height, letterSpacing, pointer coordinates are     *)
(*     integers (pixels): the code only ever stores integers in them;      *)
(*   - lineHeight is kept in tenths (1.2 is 12);                           *)
(*   - position.x / position.y are kept in units of 1/(K*K) pixel, because *)
(*     the 'w' resize writes startPosition + rotatedDx * cos, a product of *)
(*     two trigonometric factors; cos and sin are tabulated times K.       *)
(*   - an id `text-${n}` is the integer n; null is NoId.                   *)
(***************************************************************************)
EXTENDS Integers, Sequences, FiniteSets, TLC

(***************************************************************************)
(* Bounds of the model.                                                    *)
(***************************************************************************)
MaxClock == 2
MaxEdits == 2
MaxRequests == 1
MaxLoads == 1
MaxInFlight == 2

(***************************************************************************)
(* Program constants.                                                      *)
(***************************************************************************)
MinFontSize == 10
MinWidth == 50
FontSizeDivisor == 4
HeightTolerance == 1

K == 10 * 10
NoId == 0
NoImage == 0

Abs(n) == IF n < 0 THEN -n ELSE n
Max(a, b) == IF a > b THEN a ELSE b

\* Math.round of the rational n/d (d > 0): the nearest integer, halves upwards.
Round(n, d) == (2 * n + d) \div (2 * d)

\* Math.cos / Math.sin of an angle in degrees, times K, for the rotations of
\* the model (the rotation slider yields whole degrees in -45..45, the
\* gradient angle less 90 is a quarter turn at the ends of its slider).
CosK(deg) ==
  CASE deg = 0 -> 100
    [] deg = 90 -> 0
    [] deg = -90 -> 0
    [] deg = 30 -> 87
    [] deg = -30 -> 87
    [] deg = 45 -> 71
    [] deg = -45 -> 71

SinK(deg) ==
  CASE deg = 0 -> 0
    [] deg = 90 -> 100
    [] deg = -90 -> -100
    [] deg = 30 -> 50
    [] deg = -30 -> -50
    [] deg = 45 -> 71
    [] deg = -45 -> -71

(***************************************************************************)
(* Text: a string is a sequence of one-character strings.                  *)
(***************************************************************************)
toUpperCase1(c) ==
  CASE c = "a" -> "A"
    [] c = "b" -> "B"
    [] c = "o" -> "O"
    [] c = "i" -> "I"
    [] OTHER -> c

toUpperCase(s) == [i \in 1..Len(s) |-> toUpperCase1(s[i])]

\* 'TEXTO INCRIVEL', the text of handleAddText (the accent does not matter to
\* any width or comparison of the model).
AddedText == <<"T", "E", "X", "T", "O", " ", "I", "N", "C", "R", "I", "V", "E", "L">>

RECURSIVE SplitFrom(_, _, _, _)
SplitFrom(s, sep, i, cur) ==
  IF i > Len(s) THEN <<cur>>
  ELSE IF s[i] = sep THEN <<cur>> \o SplitFrom(s, sep, i + 1, <<>>)
  ELSE SplitFrom(s, sep, i + 1, Append(cur, s[i]))

\* String.prototype.split(sep) for a one-character separator.
Split(s, sep) == SplitFrom(s, sep, 1, <<>>)

(***************************************************************************)
(* The host's text measurement.  A glyph advances by a share of the font   *)
(* size that depends on the glyph and the family, plus the letter spacing. *)
(* Widths are in tenths of a pixel.                                        *)
(***************************************************************************)
Advance(c, fontFamily) ==
  LET base == IF c = " " THEN 2 ELSE 4
  IN  IF fontFamily = "Anton, sans-serif" THEN base ELSE base + 2

\* A font is [fontFamily, fontSize, letterSpacing].
RECURSIVE TextWidth10(_, _)
TextWidth10(s, font) ==
  IF s = <<>> THEN 0
  ELSE font.fontSize * Advance(Head(s), font.fontFamily) + 10 * font.letterSpacing
       + TextWidth10(Tail(s), font)

(***************************************************************************)
(* The preview's layout of an element's text (the inner div of the editor, *)
(* whiteSpace: pre-wrap, wordBreak: break-word): paragraphs at newlines,   *)
(* lines filled greedily with whole words, and a word wider than the box   *)
(* broken between characters.                                              *)
(***************************************************************************)
RECURSIVE Chunks(_, _, _, _)
Chunks(w, cur, font, maxWidth10) ==
  IF w = <<>> THEN <<cur>>
  ELSE LET t == Append(cur, Head(w))
       IN  IF cur = <<>> \/ TextWidth10(t, font) <= maxWidth10
           THEN Chunks(Tail(w), t, font, maxWidth10)
           ELSE <<cur>> \o Chunks(w, <<>>, font, maxWidth10)

PlaceWord(w, font, maxWidth10) ==
  IF TextWidth10(w, font) <= maxWidth10 THEN <<w>>
  ELSE Chunks(w, <<>>, font, maxWidth10)

RECURSIVE PreviewWrapFrom(_, _, _, _, _, _)
PreviewWrapFrom(words, i, done, cur, font, maxWidth10) ==
  IF i > Len(words) THEN Append(done, cur)
  ELSE LET test == cur \o <<" ">> \o words[i]
           p == PlaceWord(words[i], font, maxWidth10)
       IN  IF TextWidth10(test, font) <= maxWidth10
           THEN PreviewWrapFrom(words, i + 1, done, test, font, maxWidth10)
           ELSE PreviewWrapFrom(words, i + 1,
                                done \o <<cur>> \o SubSeq(p, 1, Len(p) - 1),
                                p[Len(p)], font, maxWidth10)

PreviewWrapParagraph(par, font, maxWidth10) ==
  LET words == Split(par, " ")
      p == PlaceWord(words[1], font, maxWidth10)
  IN  PreviewWrapFrom(words, 2, SubSeq(p, 1, Len(p) - 1), p[Len(p)], font, maxWidth10)

RECURSIVE PreviewWrapAll(_, _, _, _)
PreviewWrapAll(pars, i, font, maxWidth10) ==
  IF i > Len(pars) THEN <<>>
  ELSE PreviewWrapParagraph(pars[i], font, maxWidth10)
       \o PreviewWrapAll(pars, i + 1, font, maxWidth10)

ElementFont(el) ==
  [fontFamily |-> el.fontFamily, fontSize |-> el.fontSize,
   letterSpacing |-> el.letterSpacing]

\* The lines the preview shows for an element: {el.text || ' '} in a box of the
\* element's width.
PreviewLines(el) ==
  LET shown == IF el.text = <<>> THEN <<" ">> ELSE toUpperCase(el.text)
  IN  PreviewWrapAll(Split(shown, "\n"), 1, ElementFont(el), 10 * el.width)

\* node.scrollHeight of the element's text node: one line box of
\* fontSize * lineHeight per line, as a whole number of pixels.
ScrollHeight(el) == Round(Len(PreviewLines(el)) * el.fontSize * el.lineHeight, 10)

(***************************************************************************)
(* Text elements.                                                          *)
(***************************************************************************)
\* defaultTextElement of handleGenerateFinalImage.
DefaultTextElement(now, headline) ==
  [id |-> now, text |-> toUpperCase(headline), fontFamily |-> "Anton, sans-serif",
   fontSize |-> 80, color |-> "#FFFFFF", strokeColor |-> "#000000",
   strokeWidth |-> 4, position |-> [x |-> 50 * K * K, y |-> 50 * K * K],
   letterSpacing |-> 0, lineHeight |-> 12, shadowColor |-> "#000000",
   shadowBlur |-> 5, shadowOffsetX |-> 3, shadowOffsetY |-> 3,
   useGradient |-> FALSE, gradientColor1 |-> "#FFFF00",
   gradientColor2 |-> "#FF8A00", gradientAngle |-> 90, rotation |-> 0,
   width |-> 700, height |-> 100, textAlign |-> "left"]

\* newText of handleAddText.
NewText(now) ==
  [id |-> now, text |-> AddedText, fontFamily |-> "Anton, sans-serif",
   fontSize |-> 50, color |-> "#FFFFFF", strokeColor |-> "#000000",
   strokeWidth |-> 2, position |-> [x |-> 50 * K * K, y |-> 150 * K * K],
   letterSpacing |-> 0, lineHeight |-> 12, shadowColor |-> "#000000",
   shadowBlur |-> 0, shadowOffsetX |-> 0, shadowOffsetY |-> 0,
   useGradient |-> FALSE, gradientColor1 |-> "#FFFFFF",
   gradientColor2 |-> "#CCCCCC", gradientAngle |-> 90, rotation |-> 0,
   width |-> 300, height |-> 60, textAlign |-> "left"]

\* A merge that also re-estimates the height from the merged font size and
\* line height.
MergeAndEstimate(el, updates) ==
  LET merged == [f \in DOMAIN el |-> IF f \in DOMAIN updates THEN updates[f] ELSE el[f]]
  IN  [merged EXCEPT !.height = (merged.fontSize * merged.lineHeight) \div 10]

\* { ...el, ...updates }: updates is a record of some of the element's fields.
Merge(el, updates) ==
  [f \in DOMAIN el |-> IF f \in DOMAIN updates THEN updates[f] ELSE el[f]]

Ids(els) == {els[i].id : i \in 1..Len(els)}

\* textElements.find(el => el.id === id): the first such element's index, 0 if none.
FindIndex(els, id) ==
  IF \E i \in 1..Len(els) : els[i].id = id
  THEN CHOOSE i \in 1..Len(els) :
         els[i].id = id /\ \A j \in 1..(i - 1) : els[j].id # id
  ELSE 0

\* textElements.filter(el => el.id !== id)
RECURSIVE FilterOut(_, _)
FilterOut(els, id) ==
  IF els = <<>> THEN <<>>
  ELSE IF Head(els).id = id THEN FilterOut(Tail(els), id)
  ELSE <<Head(els)>> \o FilterOut(Tail(els), id)

\* The dependency fingerprint of the height effect (textElementDeps).
textElementDeps(els) ==
  [i \in 1..Len(els) |->
     [id |-> els[i].id, text |-> els[i].text, width |-> els[i].width,
      fontSize |-> els[i].fontSize, lineHeight |-> els[i].lineHeight,
      letterSpacing |-> els[i].letterSpacing, fontFamily |-> els[i].fontFamily]]

(***************************************************************************)
(* State.                                                                  *)
(*   appState: currentStep .. activeTextElementId (the fields that decide  *)
(*   the behaviour of the editor); apiKey and modificationPrompt are the   *)
(*   component's other useState cells, "" when empty.                      *)
(*   dragInfo, resizeInfo: the two useRef session records.                 *)
(*   listeners: the mousemove/mouseup listener pairs attached to window,   *)
(*   in the order they were added; a pair is [kind, id], the session kind  *)
(*   and the id its closures captured.                                     *)
(*   timers: the pending timeouts of the height effect, oldest first; one  *)
(*   holds what its callback reads of the textElements it closed over,     *)
(*   the id and the height of each element.                                *)
(*   now: Date.now().                                                      *)
(*   requests: the AI calls in flight, each with what its handler closed   *)
(*   over.                                                                 *)
(*   edits: how many editing gestures (add, style update, pointer down)    *)
(*   the user has made, a count the specifications bound.                  *)
(*   loads: the exports whose image is still loading, each with what its   *)
(*   onload handler closed over (textElements, generatedImage, scale).     *)
(*   canvas: the calls made on the 2d context of the last export that was  *)
(*   drawn, in order; empty before the first.                              *)
(*   download: the content of the file last offered for download (the      *)
(*   calls its canvas had received when link.click() ran); empty while     *)
(*   none has been offered.                                                *)
(***************************************************************************)
VARIABLES currentStep, selectedHeadline, finalPrompt, generatedImage, isLoading,
          error, textElements, activeTextElementId, apiKey, modificationPrompt,
          dragInfo, resizeInfo, listeners, timers, now, requests, edits,
          loads, canvas, download

flowVars == <<currentStep, selectedHeadline, finalPrompt, generatedImage, isLoading, error>>
keyVars == <<apiKey, modificationPrompt>>
pointerVars == <<dragInfo, resizeInfo, listeners>>
exportVars == <<loads, canvas, download>>
vars == <<flowVars, textElements, activeTextElementId, keyVars, pointerVars,
          timers, now, requests, edits, exportVars>>

Origin == [x |-> 0, y |-> 0]

InitDragInfo ==
  [isDragging |-> FALSE, elementId |-> NoId, startPos |-> Origin, elementStartPos |-> Origin]

InitResizeInfo ==
  [isResizing |-> FALSE, elementId |-> NoId, handle |-> "null", startPos |-> Origin,
   startFontSize |-> 0, startWidth |-> 0, startRotation |-> 0, startPosition |-> Origin]

\* The editor (preview, style panel, action buttons) is rendered.
EditorMounted == currentStep = "TEXT_EDITING" /\ generatedImage # NoImage

\* The style panel and the resize handles are rendered for the active element.
ActiveShown == EditorMounted /\ activeTextElementId \in Ids(textElements)

\* What the timeout callback reads of the textElements it closes over.
Closure(els) ==
  [textElements |-> [i \in 1..Len(els) |-> [id |-> els[i].id, height |-> els[i].height]]]

\* The height effect without its cleanup: the earlier timeout stays pending.
EffectNoCleanup(oldEls, newEls) ==
  IF textElementDeps(newEls) # textElementDeps(oldEls)
  THEN Append(timers, Closure(newEls))
  ELSE timers

\* useEffect(..., [textElementDeps]): when the fingerprint changed with the
\* render, the cleanup clears the previous timeout and a new one is set, whose
\* callback closes over the rendered textElements.
Effect(oldEls, newEls) ==
  IF textElementDeps(newEls) # textElementDeps(oldEls)
  THEN <<Closure(newEls)>>
  ELSE timers

\* A state update that replaces textElements, with the effect of the render.
SetTextElements(newEls) ==
  /\ textElements' = newEls
  /\ timers' = Effect(textElements, newEls)

Init ==
  /\ currentStep = "HEADLINE_INPUT"
  /\ selectedHeadline = <<>>
  /\ finalPrompt = "null"
  /\ generatedImage = NoImage
  /\ isLoading = FALSE
  /\ error = "null"
  /\ textElements = <<>>
  /\ activeTextElementId = NoId
  /\ apiKey \in {"", "key"}
  /\ modificationPrompt = ""
  /\ dragInfo = InitDragInfo
  /\ resizeInfo = InitResizeInfo
  /\ listeners = <<>>
  /\ timers = <<Closure(<<>>)>>
  /\ now = 1
  /\ requests = <<>>
  /\ edits = 0
  /\ loads = <<>>
  /\ canvas = <<>>
  /\ download = <<>>

(***************************************************************************)
(* The clock.                                                              *)
(***************************************************************************)
Tick ==
  /\ now < MaxClock
  /\ now' = now + 1
  /\ UNCHANGED <<flowVars, textElements, activeTextElementId, keyVars, pointerVars,
                 timers, requests, edits>>
  /\ UNCHANGED exportVars

(***************************************************************************)
(* Scene operations.                                                       *)
(***************************************************************************)
handleAddText ==
  /\ EditorMounted
  /\ SetTextElements(Append(textElements, NewText(now)))
  /\ activeTextElementId' = now
  /\ edits' = edits + 1
  /\ UNCHANGED <<flowVars, keyVars, pointerVars, now, requests>>
  /\ UNCHANGED exportVars

handleUpdateActiveTextElement(updates) ==
  /\ ActiveShown
  /\ IF activeTextElementId = NoId
     THEN UNCHANGED <<textElements, timers>>
     ELSE SetTextElements([i \in 1..Len(textElements) |->
            IF textElements[i].id = activeTextElementId
            THEN Merge(textElements[i], updates)
            ELSE textElements[i]])
  /\ edits' = edits + 1
  /\ UNCHANGED <<flowVars, activeTextElementId, keyVars, pointerVars, now, requests>>
  /\ UNCHANGED exportVars

\* handleUpdateActiveTextElement as the scene operation updateActive: called
\* with any Partial<TextElement>, whether or not an element is active.
updateActive(updates) ==
  /\ EditorMounted
  /\ IF activeTextElementId = NoId
     THEN UNCHANGED <<textElements, timers>>
     ELSE SetTextElements([i \in 1..Len(textElements) |->
            IF textElements[i].id = activeTextElementId
            THEN Merge(textElements[i], updates)
            ELSE textElements[i]])
  /\ edits' = edits + 1
  /\ UNCHANGED <<flowVars, activeTextElementId, keyVars, pointerVars, now, requests>>
  /\ UNCHANGED exportVars

handleRemoveActiveTextElement ==
  /\ ActiveShown
  /\ IF activeTextElementId = NoId
     THEN UNCHANGED <<textElements, timers, activeTextElementId>>
     ELSE /\ SetTextElements(FilterOut(textElements, activeTextElementId))
          /\ activeTextElementId' = NoId
  /\ UNCHANGED <<flowVars, keyVars, pointerVars, now, requests, edits>>
  /\ UNCHANGED exportVars

(***************************************************************************)
(* The height effect's timeout callback.                                   *)
(***************************************************************************)
LastIndex(els, id) ==
  CHOOSE i \in 1..Len(els) : els[i].id = id /\ \A j \in (i + 1)..Len(els) : els[j].id # id

\* textElementRefs.current[id].scrollHeight, 0 when the ref holds no node: the
\* ref callbacks run in render order, so the node registered under an id is the
\* one of the last rendered element with that id.
NodeScrollHeight(id) ==
  IF EditorMounted /\ id \in Ids(textElements)
  THEN ScrollHeight(textElements[LastIndex(textElements, id)])
  ELSE 0

\* The comparison of the callback with a coarser threshold.
NeedsHeightCoarse(el, currentHeight) ==
  currentHeight > 0 /\ Abs(currentHeight - el.height) > HeightTolerance + MinFontSize

\* currentHeight > 0 && Math.abs(currentHeight - el.height) > 1
NeedsHeight(el, currentHeight) ==
  currentHeight > 0 /\ Abs(currentHeight - el.height) > HeightTolerance

TimerFire ==
  /\ timers # <<>>
  /\ LET closed == Head(timers).textElements
         updates == {closed[i].id : i \in {j \in 1..Len(closed) :
                        NeedsHeight(closed[j], NodeScrollHeight(closed[j].id))}}
     IN  textElements' = [i \in 1..Len(textElements) |->
           IF textElements[i].id \in updates
           THEN [textElements[i] EXCEPT !.height = NodeScrollHeight(textElements[i].id)]
           ELSE textElements[i]]
  /\ timers' = Tail(timers)
  /\ UNCHANGED <<flowVars, activeTextElementId, keyVars, pointerVars, now, requests, edits>>
  /\ UNCHANGED exportVars

(***************************************************************************)
(* Pointer sessions.  A pointer position is [x, y] (clientX, clientY).     *)
(***************************************************************************)
\* onMouseDown of an element's box: handleDragStart(e, el.id), then the element
\* becomes active.
ElementMouseDown(id, p) ==
  /\ EditorMounted
  /\ id \in Ids(textElements)
  /\ LET i == FindIndex(textElements, id)
     IN  IF i = 0
         THEN UNCHANGED <<dragInfo, listeners>>
         ELSE /\ dragInfo' = [isDragging |-> TRUE, elementId |-> id, startPos |-> p,
                              elementStartPos |-> textElements[i].position]
              /\ listeners' = Append(listeners, [kind |-> "drag", id |-> id])
  /\ activeTextElementId' = id
  /\ edits' = edits + 1
  /\ UNCHANGED <<flowVars, textElements, keyVars, resizeInfo, timers, now, requests>>
  /\ UNCHANGED exportVars

\* onMouseDown of a handle of the active element: handleResizeStart(e, el.id, handle);
\* stopPropagation keeps the box's onMouseDown from running.
handleResizeStart(handle, p) ==
  /\ ActiveShown
  /\ LET id == activeTextElementId
         i == FindIndex(textElements, id)
     IN  IF i = 0
         THEN UNCHANGED <<resizeInfo, listeners, activeTextElementId>>
         ELSE /\ activeTextElementId' = id
              /\ resizeInfo' = [isResizing |-> TRUE, elementId |-> id, handle |-> handle,
                                startPos |-> p,
                                startFontSize |-> textElements[i].fontSize,
                                startWidth |-> textElements[i].width,
                                startRotation |-> textElements[i].rotation,
                                startPosition |-> textElements[i].position]
              /\ listeners' = Append(listeners, [kind |-> "resize", id |-> id])
  /\ edits' = edits + 1
  /\ UNCHANGED <<flowVars, textElements, keyVars, dragInfo, timers, now, requests>>
  /\ UNCHANGED exportVars

\* A move handler that repositions every element of the scene.
DragMoveEvery(id, els, p) ==
  IF ~dragInfo.isDragging \/ dragInfo.elementId # id THEN els
  ELSE LET dx == p.x - dragInfo.startPos.x
           dy == p.y - dragInfo.startPos.y
       IN  [i \in 1..Len(els) |->
             [els[i] EXCEPT !.position =
                [x |-> dragInfo.elementStartPos.x + dx * K * K,
                 y |-> dragInfo.elementStartPos.y + dy * K * K]]]

\* handleDragStart.handleMouseMove for the session of element id.
DragMove(id, els, p) ==
  IF ~dragInfo.isDragging \/ dragInfo.elementId # id THEN els
  ELSE LET dx == p.x - dragInfo.startPos.x
           dy == p.y - dragInfo.startPos.y
       IN  [i \in 1..Len(els) |->
             IF els[i].id = id
             THEN [els[i] EXCEPT !.position =
                     [x |-> dragInfo.elementStartPos.x + dx * K * K,
                      y |-> dragInfo.elementStartPos.y + dy * K * K]]
             ELSE els[i]]

\* case 'w' of handleResizeStart.handleMouseMove.
ResizeWest(el, startState, rotatedDxK, cos, sin) ==
  LET newWidth == Max(MinWidth, Round(startState.startWidth * K - rotatedDxK, K))
  IN  [el EXCEPT !.width = newWidth,
                 !.position = [x |-> startState.startPosition.x + rotatedDxK * cos,
                               y |-> startState.startPosition.y + rotatedDxK * sin]]

\* Math.max(10, Math.round(startFontSize + change)) without the floor.
NewFontSizeNoFloor(startFontSize, changeK4) ==
  Round(startFontSize * FontSizeDivisor * K + changeK4, FontSizeDivisor * K)

\* Math.max(10, Math.round(startFontSize + change)), change = changeK4 / (4 K).
NewFontSize(startFontSize, changeK4) ==
  Max(MinFontSize,
      Round(startFontSize * FontSizeDivisor * K + changeK4, FontSizeDivisor * K))

\* The rotation read from the element as it is at the move.
ElementRotation(el, startState) == el.rotation

\* angle = startState.startRotation * Math.PI / 180: the rotation the session
\* captured at its start, in degrees.
SessionRotation(el, startState) == startState.startRotation

\* The switch of handleResizeStart.handleMouseMove for one element, dx and dy
\* the raw pointer delta.
ResizeElement(el, startState, dx, dy) ==
  LET cos == CosK(SessionRotation(el, startState))
      sin == SinK(SessionRotation(el, startState))
      rotatedDxK == dx * cos + dy * sin
      rotatedDyK == (-dx) * sin + dy * cos
      h == startState.handle
  IN  CASE h = "se" ->
             [el EXCEPT !.fontSize = NewFontSize(startState.startFontSize, rotatedDxK + rotatedDyK)]
        [] h = "sw" ->
             [el EXCEPT !.fontSize = NewFontSize(startState.startFontSize, (-rotatedDxK) + rotatedDyK)]
        [] h = "ne" ->
             [el EXCEPT !.fontSize = NewFontSize(startState.startFontSize, rotatedDxK - rotatedDyK)]
        [] h = "nw" ->
             [el EXCEPT !.fontSize = NewFontSize(startState.startFontSize, (-rotatedDxK) - rotatedDyK)]
        [] h = "e" ->
             [el EXCEPT !.width = Max(MinWidth, Round(startState.startWidth * K + rotatedDxK, K))]
        [] h = "w" -> ResizeWest(el, startState, rotatedDxK, cos, sin)
        [] OTHER -> el

\* handleResizeStart.handleMouseMove for the session of element id.
ResizeMove(id, els, p) ==
  IF ~resizeInfo.isResizing \/ resizeInfo.elementId # id THEN els
  ELSE LET dx == p.x - resizeInfo.startPos.x
           dy == p.y - resizeInfo.startPos.y
       IN  [i \in 1..Len(els) |->
             IF els[i].id # id THEN els[i]
             ELSE ResizeElement(els[i], resizeInfo, dx, dy)]

\* One mousemove event: every attached mousemove listener runs, in the order
\* the listeners were added.
RECURSIVE MoveAll(_, _, _)
MoveAll(ls, els, p) ==
  IF ls = <<>> THEN els
  ELSE MoveAll(Tail(ls),
               IF Head(ls).kind = "drag" THEN DragMove(Head(ls).id, els, p)
               ELSE ResizeMove(Head(ls).id, els, p),
               p)

WindowMouseMove(p) ==
  /\ listeners # <<>>
  /\ SetTextElements(MoveAll(listeners, textElements, p))
  /\ UNCHANGED <<flowVars, activeTextElementId, keyVars, pointerVars, now, requests, edits>>
  /\ UNCHANGED exportVars

\* A mouseup handler that gives up when its element is gone.
DetachesIfPresent(l, els) == l.id \in Ids(els)

\* handleMouseUp of either session removes its own two listeners, whatever has
\* become of the element.
Detaches(l, els) == TRUE

\* One mouseup event: every attached mouseup listener runs.
WindowMouseUp ==
  /\ listeners # <<>>
  /\ dragInfo' = IF \E i \in 1..Len(listeners) : listeners[i].kind = "drag"
                 THEN [dragInfo EXCEPT !.isDragging = FALSE, !.elementId = NoId]
                 ELSE dragInfo
  /\ resizeInfo' = IF \E i \in 1..Len(listeners) : listeners[i].kind = "resize"
                   THEN [resizeInfo EXCEPT !.isResizing = FALSE, !.elementId = NoId]
                   ELSE resizeInfo
  /\ listeners' = SelectSeq(listeners, LAMBDA l : ~Detaches(l, textElements))
  /\ UNCHANGED <<flowVars, textElements, activeTextElementId, keyVars, timers, now,
                 requests, edits>>
  /\ UNCHANGED exportVars

(***************************************************************************)
(* The AI request flow.  A request in flight is [kind, phase, headline]:   *)
(* handleGenerateFinalImage awaits the prompt, then the image, and closes  *)
(* over the selected headline of the render it was called in.              *)
(***************************************************************************)
RemoveAt(seq, i) == SubSeq(seq, 1, i - 1) \o SubSeq(seq, i + 1, Len(seq))

handleSaveApiKey ==
  /\ apiKey' = "key"
  /\ error' = "null"
  /\ \/ apiKey = ""
     \/ error # "null"
  /\ UNCHANGED <<currentStep, selectedHeadline, finalPrompt, generatedImage, isLoading,
                 textElements, activeTextElementId, modificationPrompt, pointerVars,
                 timers, now, requests, edits>>
  /\ UNCHANGED exportVars

\* The submit button is disabled while loading or without a key.
handleHeadlineSubmit ==
  /\ currentStep = "HEADLINE_INPUT"
  /\ ~isLoading
  /\ apiKey # ""
  /\ isLoading' = TRUE
  /\ error' = "null"
  /\ requests' = Append(requests, [kind |-> "headline", phase |-> "variations",
                                   headline |-> <<>>])
  /\ UNCHANGED <<currentStep, selectedHeadline, finalPrompt, generatedImage,
                 textElements, activeTextElementId, keyVars, pointerVars, timers, now, edits>>
  /\ UNCHANGED exportVars

HeadlineSuccess(i) ==
  /\ requests[i].kind = "headline"
  /\ isLoading' = FALSE
  /\ currentStep' = "HEADLINE_SELECTION"
  /\ requests' = RemoveAt(requests, i)
  /\ UNCHANGED <<selectedHeadline, finalPrompt, generatedImage, error, textElements,
                 activeTextElementId, keyVars, pointerVars, timers, now, edits>>
  /\ UNCHANGED exportVars

HeadlineFailure(i) ==
  /\ requests[i].kind = "headline"
  /\ isLoading' = FALSE
  /\ error' = "api"
  /\ requests' = RemoveAt(requests, i)
  /\ UNCHANGED <<currentStep, selectedHeadline, finalPrompt, generatedImage, textElements,
                 activeTextElementId, keyVars, pointerVars, timers, now, edits>>
  /\ UNCHANGED exportVars

handleHeadlineSelection(headline) ==
  /\ currentStep = "HEADLINE_SELECTION"
  /\ selectedHeadline' = headline
  /\ currentStep' = "STYLE_SELECTION"
  /\ UNCHANGED <<finalPrompt, generatedImage, isLoading, error, textElements,
                 activeTextElementId, keyVars, pointerVars, timers, now, requests, edits>>
  /\ UNCHANGED exportVars

handleStyleSelection ==
  /\ currentStep = "STYLE_SELECTION"
  /\ currentStep' = "IMAGE_UPLOAD"
  /\ UNCHANGED <<selectedHeadline, finalPrompt, generatedImage, isLoading, error,
                 textElements, activeTextElementId, keyVars, pointerVars, timers, now,
                 requests, edits>>
  /\ UNCHANGED exportVars

\* 'Gerar Imagem Base' (step IMAGE_UPLOAD) and 'Gerar Novamente' (editor), both
\* disabled while loading.
handleGenerateFinalImage ==
  /\ currentStep = "IMAGE_UPLOAD" \/ EditorMounted
  /\ ~isLoading
  /\ IF apiKey = ""
     THEN /\ error' = "no key"
          /\ UNCHANGED <<currentStep, isLoading, requests>>
     ELSE /\ isLoading' = TRUE
          /\ error' = "null"
          /\ currentStep' = "PROMPT_GENERATION"
          /\ requests' = Append(requests, [kind |-> "generate", phase |-> "prompt",
                                           headline |-> selectedHeadline])
  /\ UNCHANGED <<selectedHeadline, finalPrompt, generatedImage, textElements,
                 activeTextElementId, keyVars, pointerVars, timers, now, edits>>
  /\ UNCHANGED exportVars

\* generateThumbnailPrompt resolved: the prompt is stored, the image is awaited.
PromptSuccess(i) ==
  /\ requests[i].kind = "generate" /\ requests[i].phase = "prompt"
  /\ finalPrompt' = "prompt"
  /\ requests' = [requests EXCEPT ![i].phase = "image"]
  /\ UNCHANGED <<currentStep, selectedHeadline, generatedImage, isLoading, error,
                 textElements, activeTextElementId, keyVars, pointerVars, timers, now, edits>>
  /\ UNCHANGED exportVars

\* A catch block that also discards the scene.
GenerateFailureClearing(i) ==
  /\ requests[i].kind = "generate"
  /\ isLoading' = FALSE
  /\ error' = "api"
  /\ currentStep' = "IMAGE_UPLOAD"
  /\ SetTextElements(<<>>)
  /\ activeTextElementId' = NoId
  /\ requests' = RemoveAt(requests, i)
  /\ UNCHANGED <<selectedHeadline, finalPrompt, generatedImage, keyVars, pointerVars,
                 now, edits>>
  /\ UNCHANGED exportVars

\* The catch block of handleGenerateFinalImage, for a rejection of either await.
GenerateFailure(i) ==
  /\ requests[i].kind = "generate"
  /\ isLoading' = FALSE
  /\ error' = "api"
  /\ currentStep' = "IMAGE_UPLOAD"
  /\ requests' = RemoveAt(requests, i)
  /\ UNCHANGED <<selectedHeadline, finalPrompt, generatedImage, textElements,
                 activeTextElementId, keyVars, pointerVars, timers, now, edits>>
  /\ UNCHANGED exportVars

\* The scene after a successful generation, left empty.
SceneAfterGenerationEmpty(t, headline) == <<>>

\* The scene after a successful generation kept and extended.
SceneAfterGenerationMerged(t, headline) ==
  Append(textElements, DefaultTextElement(t, headline))

\* textElements: [defaultTextElement] of the final setAppState.
SceneAfterGeneration(t, headline) == <<DefaultTextElement(t, headline)>>

\* generateFinalImage resolved within handleGenerateFinalImage.
GenerateSuccess(i, image) ==
  /\ requests[i].kind = "generate" /\ requests[i].phase = "image"
  /\ LET scene == SceneAfterGeneration(now, requests[i].headline)
     IN  /\ SetTextElements(scene)
         /\ activeTextElementId' = now
  /\ isLoading' = FALSE
  /\ generatedImage' = image
  /\ currentStep' = "TEXT_EDITING"
  /\ requests' = RemoveAt(requests, i)
  /\ UNCHANGED <<selectedHeadline, finalPrompt, error, keyVars, pointerVars, now, edits>>
  /\ UNCHANGED exportVars

\* The modification input, disabled while loading.
setModificationPrompt(text) ==
  /\ EditorMounted
  /\ ~isLoading
  /\ text # modificationPrompt
  /\ modificationPrompt' = text
  /\ UNCHANGED <<flowVars, textElements, activeTextElementId, apiKey, pointerVars,
                 timers, now, requests, edits>>
  /\ UNCHANGED exportVars

\* The button is disabled while loading or with a blank prompt.
handleModifyImage ==
  /\ EditorMounted
  /\ ~isLoading
  /\ modificationPrompt # ""
  /\ IF apiKey = ""
     THEN /\ error' = "no key"
          /\ UNCHANGED <<isLoading, requests>>
     ELSE /\ isLoading' = TRUE
          /\ error' = "null"
          /\ requests' = Append(requests, [kind |-> "modify", phase |-> "image",
                                           headline |-> <<>>])
  /\ UNCHANGED <<currentStep, selectedHeadline, finalPrompt, generatedImage,
                 textElements, activeTextElementId, keyVars, pointerVars, timers, now, edits>>
  /\ UNCHANGED exportVars

ModifySuccess(i, image) ==
  /\ requests[i].kind = "modify"
  /\ isLoading' = FALSE
  /\ generatedImage' = image
  /\ modificationPrompt' = ""
  /\ requests' = RemoveAt(requests, i)
  /\ UNCHANGED <<currentStep, selectedHeadline, finalPrompt, error, textElements,
                 activeTextElementId, apiKey, pointerVars, timers, now, edits>>
  /\ UNCHANGED exportVars

ModifyFailure(i) ==
  /\ requests[i].kind = "modify"
  /\ isLoading' = FALSE
  /\ error' = "api"
  /\ requests' = RemoveAt(requests, i)
  /\ UNCHANGED <<currentStep, selectedHeadline, finalPrompt, generatedImage, textElements,
                 activeTextElementId, keyVars, pointerVars, timers, now, edits>>
  /\ UNCHANGED exportVars

\* 'Comecar Novamente', shown with the editor.
handleReset ==
  /\ EditorMounted
  /\ currentStep' = "HEADLINE_INPUT"
  /\ selectedHeadline' = <<>>
  /\ finalPrompt' = "null"
  /\ generatedImage' = NoImage
  /\ isLoading' = FALSE
  /\ error' = "null"
  /\ SetTextElements(<<>>)
  /\ activeTextElementId' = NoId
  /\ UNCHANGED <<keyVars, pointerVars, now, requests, edits>>
  /\ UNCHANGED exportVars

(***************************************************************************)
(* The export (handleDownloadWithText).  scale = image.naturalWidth /       *)
(* image.width is a ratio [num, den]; a length on the canvas is the         *)
(* source's number times num, in units of 1/den of what the editor uses:    *)
(* text widths and line offsets in 1/(10 den) pixel, positions in           *)
(* 1/(K K den) pixel, drawX in 1/(2 den) pixel.                             *)
(***************************************************************************)
\* The 2d context after ctx.font = `bold ${fontSize * scale}px ${fontFamily}`
\* and ctx.letterSpacing = `${letterSpacing * scale}px`.
Context(textEl, scale) ==
  [font |-> [fontFamily |-> textEl.fontFamily,
             fontSize |-> textEl.fontSize * scale.num,
             letterSpacing |-> textEl.letterSpacing * scale.num]]

\* ctx.measureText(s).width
measureText(ctx, s) == TextWidth10(s, ctx.font)

\* The loop of getWrappedLines without the push after it.
RECURSIVE WrapFromNoFlush(_, _, _, _, _, _)
WrapFromNoFlush(ctx, words, i, lines, currentLine, maxWidth) ==
  IF i > Len(words) THEN lines
  ELSE LET testLine == currentLine \o <<" ">> \o words[i]
       IN  IF measureText(ctx, testLine) < maxWidth
           THEN WrapFromNoFlush(ctx, words, i + 1, lines, testLine, maxWidth)
           ELSE WrapFromNoFlush(ctx, words, i + 1, Append(lines, currentLine), words[i],
                                maxWidth)

\* The loop of getWrappedLines from word i on, and the push after it.
RECURSIVE WrapFrom(_, _, _, _, _, _)
WrapFrom(ctx, words, i, lines, currentLine, maxWidth) ==
  IF i > Len(words) THEN Append(lines, currentLine)
  ELSE LET testLine == currentLine \o <<" ">> \o words[i]
       IN  IF measureText(ctx, testLine) < maxWidth
           THEN WrapFrom(ctx, words, i + 1, lines, testLine, maxWidth)
           ELSE WrapFrom(ctx, words, i + 1, Append(lines, currentLine), words[i], maxWidth)

\* A wrapper that lays the paragraph out as the preview does, breaking a word
\* that is wider than the box.
getWrappedLinesBreaking(ctx, text, maxWidth) ==
  PreviewWrapParagraph(text, ctx.font, maxWidth)

getWrappedLines(ctx, text, maxWidth) ==
  IF maxWidth <= 0 THEN <<text>>
  ELSE LET words == Split(text, " ")
       IN  IF Len(words) <= 1 THEN <<text>>
           ELSE WrapFrom(ctx, words, 2, <<>>, words[1], maxWidth)

\* textLines: the wrapped lines of every paragraph of textEl.text, in order.
RECURSIVE WrapParagraphs(_, _, _, _)
WrapParagraphs(ctx, initialLines, i, maxWidth) ==
  IF i > Len(initialLines) THEN <<>>
  ELSE getWrappedLines(ctx, initialLines[i], maxWidth)
       \o WrapParagraphs(ctx, initialLines, i + 1, maxWidth)

ExportLines(textEl, scale) ==
  WrapParagraphs(Context(textEl, scale), Split(textEl.text, "\n"), 1,
                 10 * textEl.width * scale.num)

\* A call on the context: [op, el, line, text, x, y], el the element's place in
\* the scene and line the line's index (0 where there is none).
Call(op, e, k, text, x, y) ==
  [op |-> op, el |-> e, line |-> k, text |-> text, x |-> x, y |-> y]

\* The two calls of a line, the fill before the stroke.
LineCallsFillFirst(e, k, line, drawX, lineY) ==
  <<Call("fillText", e, k, line, drawX, lineY), Call("strokeText", e, k, line, drawX, lineY)>>

\* ctx.strokeText(line, drawX, lineY); ctx.fillText(line, drawX, lineY);
LineCalls(e, k, line, drawX, lineY) ==
  <<Call("strokeText", e, k, line, drawX, lineY), Call("fillText", e, k, line, drawX, lineY)>>

RECURSIVE LinesCalls(_, _, _, _, _)
LinesCalls(e, textLines, k, drawX, lineHeight) ==
  IF k > Len(textLines) THEN <<>>
  ELSE LineCalls(e, k, textLines[k], drawX, (k - 1) * lineHeight)
       \o LinesCalls(e, textLines, k + 1, drawX, lineHeight)

\* A length left as the editor has it: v, in the units of v * scale.
Unscaled(v, scale) == v * scale.den

\* v * scale
Scaled(v, scale) == v * scale.num

\* maxWidth of img.onload: the widest measured line, 0 without lines.
RECURSIVE BlockWidth(_, _, _)
BlockWidth(ctx, textLines, k) ==
  IF k > Len(textLines) THEN 0
  ELSE Max(measureText(ctx, textLines[k]), BlockWidth(ctx, textLines, k + 1))

\* textBlockHeight = (textLines.length - 1) * lineHeight + fontSize * scale,
\* in the unit of lineHeight.
BlockHeight(textEl, textLines, lineHeight, scale) ==
  (Len(textLines) - 1) * lineHeight + 10 * textEl.fontSize * scale.num

\* The angle of the axis taken from the vertical downwards.
AngleFromTop(textEl) == 90 - textEl.gradientAngle

\* (textEl.gradientAngle - 90), the angle of angleRad in degrees.
AngleDeg(textEl) == textEl.gradientAngle - 90

\* x0, y0, x1, y1 of createLinearGradient, in 1/(2 K) of the unit of maxWidth
\* and textBlockHeight.
GradientAxis(textEl, maxWidth, textBlockHeight) ==
  LET cos == CosK(AngleDeg(textEl))
      sin == SinK(AngleDeg(textEl))
  IN  [x0 |-> maxWidth * K - cos * maxWidth,
       y0 |-> textBlockHeight * K - sin * textBlockHeight,
       x1 |-> maxWidth * K + cos * maxWidth,
       y1 |-> textBlockHeight * K + sin * textBlockHeight]

\* ctx.createLinearGradient(x0, y0, x1, y1) with its two colour stops: the
\* point of stop 0 with gradientColor1, the point of stop 1 with gradientColor2.
GradientCalls(e, textEl, maxWidth, textBlockHeight) ==
  IF textEl.useGradient
  THEN LET g == GradientAxis(textEl, maxWidth, textBlockHeight)
       IN  <<Call("gradientFrom", e, 0, <<textEl.gradientColor1>>, g.x0, g.y0),
             Call("gradientTo", e, 1, <<textEl.gradientColor2>>, g.x1, g.y1)>>
  ELSE <<>>

\* The body of appState.textElements.forEach for the element at place e.
ElementCalls(e, textEl, scale) ==
  LET ctx == Context(textEl, scale)
      textLines == ExportLines(textEl, scale)
      lineHeight == textEl.fontSize * scale.num * textEl.lineHeight
      drawX == CASE textEl.textAlign = "center" -> textEl.width * scale.num
                 [] textEl.textAlign = "right" -> 2 * textEl.width * scale.num
                 [] OTHER -> 0
  IN  <<Call("save", e, 0, <<>>, 0, 0),
        Call("font", e, 0, <<>>, ctx.font.fontSize, 0),
        Call("letterSpacing", e, 0, <<>>, ctx.font.letterSpacing, 0),
        Call("lineWidth", e, 0, <<>>, Scaled(textEl.strokeWidth, scale), 0),
        Call("textAlign", e, 0, <<textEl.textAlign>>, 0, 0),
        Call("translate", e, 0, <<>>, textEl.position.x * scale.num,
             textEl.position.y * scale.num),
        Call("rotate", e, 0, <<>>, textEl.rotation, 0)>>
      \o GradientCalls(e, textEl, BlockWidth(ctx, textLines, 1),
                       BlockHeight(textEl, textLines, lineHeight, scale))
      \o <<Call("shadowBlur", e, 0, <<>>, Scaled(textEl.shadowBlur, scale), 0),
            Call("shadowOffset", e, 0, <<>>, Scaled(textEl.shadowOffsetX, scale),
                 Scaled(textEl.shadowOffsetY, scale))>>
      \o LinesCalls(e, textLines, 1, drawX, lineHeight)
      \o <<Call("restore", e, 0, <<>>, 0, 0)>>

RECURSIVE ElementsCalls(_, _, _)
ElementsCalls(els, e, scale) ==
  IF e > Len(els) THEN <<>>
  ELSE ElementCalls(e, els[e], scale) \o ElementsCalls(els, e + 1, scale)

\* The calls of img.onload on the canvas of an export: the image, then every
\* element of the closure.
Drawing(load) ==
  <<Call("drawImage", 0, 0, <<>>, 0, 0)>>
    \o ElementsCalls(load.textElements, 1, load.scale)

\* An export that draws at the click, without waiting for the image.
handleDownloadWithTextEager(scale) ==
  /\ EditorMounted
  /\ loads' = Append(loads, [textElements |-> textElements, image |-> generatedImage,
                             scale |-> scale])
  /\ canvas' = Drawing([textElements |-> textElements, image |-> generatedImage,
                        scale |-> scale])
  /\ UNCHANGED <<flowVars, textElements, activeTextElementId, keyVars, pointerVars,
                 timers, now, requests, edits, download>>

\* The click on 'Finalizar e Baixar': the canvas is made and the image is set
\* loading; its onload handler closes over the rendered appState.
handleDownloadWithText(scale) ==
  /\ EditorMounted
  /\ loads' = Append(loads, [textElements |-> textElements, image |-> generatedImage,
                             scale |-> scale])
  /\ UNCHANGED <<flowVars, textElements, activeTextElementId, keyVars, pointerVars,
                 timers, now, requests, edits, canvas, download>>

\* img.onload of the export i: the image, then every element of the closure,
\* then the link with the canvas's content is clicked.
ImageLoad(i) ==
  /\ canvas' = Drawing(loads[i])
  /\ download' = canvas'
  /\ loads' = RemoveAt(loads, i)
  /\ UNCHANGED <<flowVars, textElements, activeTextElementId, keyVars, pointerVars,
                 timers, now, requests, edits>>

\* The image of the export i cannot be decoded: the error event of img is
\* dispatched, for which handleDownloadWithText sets no handler.
ImageError(i) ==
  /\ loads' = RemoveAt(loads, i)
  /\ UNCHANGED <<flowVars, textElements, activeTextElementId, keyVars, pointerVars,
                 timers, now, requests, edits, canvas, download>>

(***************************************************************************)
(* Inputs and specifications.                                              *)
(***************************************************************************)
Headlines == {<<"o", "i">>, <<"a", " ", "b">>}
\* Image tokens: the one a generation call returns and the one a modification
\* call returns.
Images == {1}
ModifiedImages == {2}
Handles == {"nw", "ne", "sw", "se", "e", "w"}
Pt(x, y) == [x |-> x, y |-> y]

\* The request flow: key, headline, style, generation, modification, restart.
FlowNext ==
  \/ handleSaveApiKey
  \/ Len(requests) < MaxRequests /\ handleHeadlineSubmit
  \/ \E i \in 1..Len(requests) : HeadlineSuccess(i)
  \/ \E i \in 1..Len(requests) : HeadlineFailure(i)
  \/ \E h \in Headlines : handleHeadlineSelection(h)
  \/ handleStyleSelection
  \/ Len(requests) < MaxRequests /\ handleGenerateFinalImage
  \/ \E i \in 1..Len(requests) : PromptSuccess(i)
  \/ \E i \in 1..Len(requests) : GenerateFailure(i)
  \/ \E i \in 1..Len(requests), image \in Images : GenerateSuccess(i, image)
  \/ \E text \in {"", "beach"} : setModificationPrompt(text)
  \/ Len(requests) < MaxRequests /\ handleModifyImage
  \/ \E i \in 1..Len(requests), image \in ModifiedImages : ModifySuccess(i, image)
  \/ \E i \in 1..Len(requests) : ModifyFailure(i)
  \/ handleReset

\* The scene operations of the editor, the style panel offering Updates.
SceneNext(Updates) ==
  \/ edits < MaxEdits /\ handleAddText
  \/ edits < MaxEdits /\ \E u \in Updates : handleUpdateActiveTextElement(u)
  \/ handleRemoveActiveTextElement

\* The pointer events: downs at Downs on any element or on a handle of Hs, moves
\* to Moves, releases.
PointerNext(Downs, Moves, Hs) ==
  \/ edits < MaxEdits /\ \E id \in Ids(textElements), p \in Downs : ElementMouseDown(id, p)
  \/ edits < MaxEdits /\ \E h \in Hs, p \in Downs : handleResizeStart(h, p)
  \/ \E p \in Moves : WindowMouseMove(p)
  \/ WindowMouseUp

(***************************************************************************)
(* Spec: the whole flow from the first render, with the scene operations.  *)
(***************************************************************************)
FlowUpdates == {[fontSize |-> 51]}

Next == Tick \/ FlowNext \/ SceneNext(FlowUpdates)

Spec == Init /\ [][Next]_vars

(***************************************************************************)
(* SpecEditor: the editor after a first successful generation (the state   *)
(* GenerateSuccess leaves), with the scene operations and the pointer      *)
(* sessions.                                                               *)
(***************************************************************************)
InitEditor ==
  /\ currentStep = "TEXT_EDITING"
  /\ selectedHeadline = <<"o", "i">>
  /\ finalPrompt = "prompt"
  /\ generatedImage = 1
  /\ isLoading = FALSE
  /\ error = "null"
  /\ textElements = SceneAfterGeneration(1, selectedHeadline)
  /\ activeTextElementId = 1
  /\ apiKey = "key"
  /\ modificationPrompt = ""
  /\ dragInfo = InitDragInfo
  /\ resizeInfo = InitResizeInfo
  /\ listeners = <<>>
  /\ timers = <<Closure(textElements)>>
  /\ now = 1
  /\ requests = <<>>
  /\ edits = 0
  /\ loads = <<>>
  /\ canvas = <<>>
  /\ download = <<>>

EditorUpdates == {[fontSize |-> 10], [rotation |-> 30]}
EditorDowns == {Pt(100, 100)}
EditorMoves == {Pt(130, 90), Pt(-600, -100), Pt(800, 100)}

NextEditor ==
  \/ Tick
  \/ SceneNext(EditorUpdates)
  \/ PointerNext(EditorDowns, EditorMoves, Handles)

SpecEditor == InitEditor /\ [][NextEditor]_vars

(***************************************************************************)
(* SpecTimer: the editor with the height effect's timeout callback, the    *)
(* style panel offering layout-affecting and other updates, width resizes  *)
(* and regeneration (which unmounts the editor while it is in flight).     *)
(***************************************************************************)
TimerUpdates ==
  {[fontSize |-> 84], [text |-> <<"A", "\n", "B">>]}
TimerMoves == {Pt(-400, 100), Pt(-600, 100)}

NextTimer ==
  \/ Tick
  \/ SceneNext(TimerUpdates)
  \/ PointerNext(EditorDowns, TimerMoves, {"e"})
  \/ TimerFire
  \/ Len(requests) < MaxRequests /\ handleGenerateFinalImage
  \/ \E i \in 1..Len(requests) : PromptSuccess(i)
  \/ \E i \in 1..Len(requests) : GenerateFailure(i)
  \/ \E i \in 1..Len(requests), image \in Images : GenerateSuccess(i, image)

SpecTimer == InitEditor /\ [][NextTimer]_vars

(***************************************************************************)
(* SpecScene: the scene operations called as operations, updateActive with *)
(* any partial element (a height among them) and with or without an       *)
(* active element, and the timeout callback.                               *)
(***************************************************************************)
SceneUpdates == {[fontSize |-> 84], [color |-> "#FF0000"], [height |-> 5]}

NextScene ==
  \/ Tick
  \/ edits < MaxEdits /\ handleAddText
  \/ edits < MaxEdits /\ \E u \in SceneUpdates : updateActive(u)
  \/ handleRemoveActiveTextElement
  \/ edits < MaxEdits /\ \E id \in Ids(textElements) : ElementMouseDown(id, Pt(100, 100))
  \/ WindowMouseUp
  \/ TimerFire

SpecScene == InitEditor /\ [][NextScene]_vars

(***************************************************************************)
(* SpecExport: the editor some time after a generation, with one element   *)
(* whose text and width are drawn from small sets (what the textarea and   *)
(* the 'e' handle can leave), additions and style updates, and the export  *)
(* at the scales below.                                                    *)
(***************************************************************************)
ExportTexts ==
  {<<>>,
   <<"O", "I">>,
   <<"A", " ", "B">>,
   <<"A", " ", " ", "B">>,
   <<"A", " ", "B", " ", "A", " ", "B">>,
   <<"O", "I", " ", "A", "\n", "B", " ", "A">>}
ExportWidths == {50, 80, 100}
Scales == {[num |-> 1, den |-> 1], [num |-> 3, den |-> 2], [num |-> 2, den |-> 1]}
ExportUpdates == {[textAlign |-> "center"]}

InitExport ==
  /\ currentStep = "TEXT_EDITING"
  /\ selectedHeadline = <<"o", "i">>
  /\ finalPrompt = "prompt"
  /\ generatedImage = 1
  /\ isLoading = FALSE
  /\ error = "null"
  /\ \E t \in ExportTexts, w \in ExportWidths :
       textElements = <<[DefaultTextElement(1, selectedHeadline)
                           EXCEPT !.text = t, !.width = w]>>
  /\ activeTextElementId = 1
  /\ apiKey = "key"
  /\ modificationPrompt = ""
  /\ dragInfo = InitDragInfo
  /\ resizeInfo = InitResizeInfo
  /\ listeners = <<>>
  /\ timers = <<Closure(textElements)>>
  /\ now = 2
  /\ requests = <<>>
  /\ edits = 0
  /\ loads = <<>>
  /\ canvas = <<>>
  /\ download = <<>>

NextExport ==
  \/ edits < MaxEdits /\ handleAddText
  \/ edits < MaxEdits /\ \E u \in ExportUpdates : handleUpdateActiveTextElement(u)
  \/ Len(loads) < MaxLoads /\ \E scale \in Scales : handleDownloadWithText(scale)
  \/ \E i \in 1..Len(loads) : ImageLoad(i)
  \/ \E i \in 1..Len(loads) : ImageError(i)

SpecExport == InitExport /\ [][NextExport]_vars

(***************************************************************************)
(* SpecGradient: the editor after a first generation, the style panel       *)
(* offering the gradient switch, gradient angles and alignments, and the    *)
(* export.                                                                  *)
(***************************************************************************)
GradientUpdates ==
  {[useGradient |-> TRUE], [gradientAngle |-> 0], [gradientAngle |-> 180],
   [textAlign |-> "center"], [textAlign |-> "right"]}

NextGradient ==
  \/ edits < MaxEdits /\ \E u \in GradientUpdates : handleUpdateActiveTextElement(u)
  \/ Len(loads) < MaxLoads /\ \E scale \in Scales : handleDownloadWithText(scale)
  \/ \E i \in 1..Len(loads) : ImageLoad(i)
  \/ \E i \in 1..Len(loads) : ImageError(i)

SpecGradient == InitEditor /\ [][NextGradient]_vars

(***************************************************************************)
(* SpecRestart: the request flow from the first render (key, headline,      *)
(* style, generation, modification, restart) with up to MaxInFlight calls   *)
(* in flight, so that a call issued before a restart can overlap with the   *)
(* calls issued after it.                                                   *)
(***************************************************************************)
NextRestart ==
  \/ handleSaveApiKey
  \/ Len(requests) < MaxInFlight /\ handleHeadlineSubmit
  \/ \E i \in 1..Len(requests) : HeadlineSuccess(i)
  \/ \E i \in 1..Len(requests) : HeadlineFailure(i)
  \/ \E h \in Headlines : handleHeadlineSelection(h)
  \/ handleStyleSelection
  \/ Len(requests) < MaxInFlight /\ handleGenerateFinalImage
  \/ \E i \in 1..Len(requests) : PromptSuccess(i)
  \/ \E i \in 1..Len(requests) : GenerateFailure(i)
  \/ \E i \in 1..Len(requests), image \in Images : GenerateSuccess(i, image)
  \/ \E text \in {"", "beach"} : setModificationPrompt(text)
  \/ Len(requests) < MaxInFlight /\ handleModifyImage
  \/ \E i \in 1..Len(requests), image \in ModifiedImages : ModifySuccess(i, image)
  \/ \E i \in 1..Len(requests) : ModifyFailure(i)
  \/ handleReset

SpecRestart == Init /\ [][NextRestart]_vars

(***************************************************************************)
(* Properties.                                                             *)
(***************************************************************************)
\* The element a pointer session captured at its start, as an index (0 if none).
SessionTarget == FindIndex(textElements, resizeInfo.elementId)

\* A session is under way whose element has left the scene.
StaleSession ==
  \E i \in 1..Len(listeners) : listeners[i].id \notin Ids(textElements)

AnyGenerateSuccess ==
  \E i \in 1..Len(requests), image \in Images : GenerateSuccess(i, image)
AnyModifySuccess ==
  \E i \in 1..Len(requests), image \in ModifiedImages : ModifySuccess(i, image)

\* The scenes that hold nothing of an earlier scene: no element, or only the
\* default element created at the current clock value.
FreshScenes == {<<>>} \cup {<<DefaultTextElement(now, h)>> : h \in Headlines}

\* C1 (as claimed): in every reachable state the elements of textElements have
\* pairwise distinct ids.  Two creations at one clock value break it.
C1_IdsPairwiseDistinct ==
  \A i, j \in 1..Len(textElements) :
    i # j => textElements[i].id # textElements[j].id

\* C2 (as claimed): activeTextElementId is null or identifies exactly one
\* element of textElements.
C2_ActiveIdentifiesOne ==
  activeTextElementId # NoId =>
    Cardinality({i \in 1..Len(textElements) : textElements[i].id = activeTextElementId}) = 1

\* C3: every element has fontSize >= 10 and width >= 50, whatever creations,
\* style-panel updates and resize moves came before.
C3_SizeFloors ==
  \A i \in 1..Len(textElements) :
    textElements[i].fontSize >= MinFontSize /\ textElements[i].width >= MinWidth

\* C3 witness: a corner resize has brought an element's font size down to the
\* floor from a larger start value.
C3_FontSizeClamped ==
  /\ resizeInfo.isResizing
  /\ resizeInfo.handle \in {"nw", "ne", "sw", "se"}
  /\ resizeInfo.startFontSize > MinFontSize
  /\ SessionTarget # 0
  /\ textElements[SessionTarget].fontSize = MinFontSize

\* C4 (as claimed): during a resize session on handle 'w' the right edge of the
\* session's element, position + width along the x-axis rotated by the captured
\* rotation, stays within one pixel of startPosition + startWidth.
C4_RightEdgeFixed ==
  (resizeInfo.isResizing /\ resizeInfo.handle = "w" /\ SessionTarget # 0) =>
    LET el == textElements[SessionTarget]
        cos == CosK(resizeInfo.startRotation)
        sin == SinK(resizeInfo.startRotation)
    IN  /\ Abs((el.position.x + el.width * K * cos)
               - (resizeInfo.startPosition.x + resizeInfo.startWidth * K * cos)) <= K * K
        /\ Abs((el.position.y + el.width * K * sin)
               - (resizeInfo.startPosition.y + resizeInfo.startWidth * K * sin)) <= K * K

\* C5: a mouseup detaches the listeners of every session under way, also of a
\* session whose element was removed from the scene in the meantime.
C5_MouseUpDetaches == [][WindowMouseUp => listeners' = <<>>]_vars

\* C5 witness: a session is still attached after its element was removed.
C5_TargetRemovedMidSession ==
  /\ StaleSession
  /\ dragInfo.isDragging \/ resizeInfo.isResizing

\* C6 (as claimed): at most one session is active, a drag and a resize are
\* never under way together, and no session starts on top of attached listeners.
C6_OneSession ==
  /\ ~(dragInfo.isDragging /\ resizeInfo.isResizing)
  /\ Len(listeners) <= 1

\* C7 (as claimed): when the timeout callback has run with the editor shown,
\* every element's stored height equals the measured height of its node.
C7_HeightExact ==
  [][(TimerFire /\ EditorMounted) =>
       \A i \in 1..Len(textElements) :
         textElements'[i].height = NodeScrollHeight(textElements[i].id)]_vars

\* C7 (amended): when the timeout callback has run with the editor shown, every
\* element's stored height is within one pixel of the scrollHeight of the node
\* registered under the element's id.
C7_HeightWithinTolerance ==
  [][(TimerFire /\ EditorMounted) =>
       \A i \in 1..Len(textElements) :
         Abs(textElements'[i].height - NodeScrollHeight(textElements[i].id))
           <= HeightTolerance]_vars

\* C7 witness: the callback has run and left a stored height one pixel away
\* from the measured one, while another height was rewritten or kept exact.
C7_OffByOneKept ==
  /\ EditorMounted
  /\ timers = <<>>
  /\ \E i \in 1..Len(textElements) :
       Abs(textElements[i].height - NodeScrollHeight(textElements[i].id)) = 1

\* C8: at most one timeout is pending, and the pending one was set after the
\* last layout-affecting edit: its callback closes over the current elements.
C8_OnePendingLatest ==
  /\ Len(timers) <= 1
  /\ timers # <<>> => Head(timers) = Closure(textElements)

\* C8 witness: two edits went by without a measurement in between (the default
\* element still has its estimated height, which a measurement would have
\* rewritten) and a single timeout is pending.
C8_BurstOneTimer ==
  /\ EditorMounted
  /\ edits = MaxEdits
  /\ Len(timers) = 1
  /\ Len(textElements) >= 1
  /\ textElements[1].height = DefaultTextElement(1, <<>>).height
  /\ Abs(NodeScrollHeight(textElements[1].id) - textElements[1].height) > HeightTolerance
  /\ textElementDeps(textElements) # textElementDeps(<<DefaultTextElement(textElements[1].id, selectedHeadline)>>)

\* C9 (as claimed): whenever an AI image call succeeds (generation,
\* regeneration or modification) the scene holds nothing of the earlier scene.
C9_EveryImageReplacesScene ==
  [][(AnyGenerateSuccess \/ AnyModifySuccess) => textElements' \in FreshScenes]_vars

\* C9 (amended): a successful generation or regeneration replaces the scene by
\* the single default element made at the current clock value for the headline
\* the generation was started with; a successful modification leaves
\* textElements as they were.
C9_GenerationReplacesModificationKeeps ==
  [][/\ \A i \in 1..Len(requests), image \in Images :
          GenerateSuccess(i, image) =>
            textElements' = <<DefaultTextElement(now, requests[i].headline)>>
     /\ AnyModifySuccess => textElements' = textElements]_vars

\* C9 witness: the editor shows an image returned by a modification call over
\* a scene of two elements, the default one and an added one.
C9_ModifiedImageKeepsScene ==
  /\ EditorMounted
  /\ generatedImage \in ModifiedImages
  /\ requests = <<>>
  /\ Len(textElements) = 2
  /\ textElements[1].text = toUpperCase(selectedHeadline)
  /\ textElements[2].text = AddedText

\* C10 (as claimed): a successful generation leaves the scene empty and no
\* element active.
C10_SceneCreatedEmpty ==
  [][AnyGenerateSuccess =>
       (textElements' = <<>> /\ activeTextElementId' = NoId)]_vars

\* C10 (amended): a successful generation leaves exactly one element, whose text
\* is the headline the generation was started with in upper case and whose id
\* is the clock value, and that element is the active one.
C10_SceneCreatedWithHeadline ==
  [][\A i \in 1..Len(requests), image \in Images :
       GenerateSuccess(i, image) =>
         /\ Len(textElements') = 1
         /\ textElements'[1].text = toUpperCase(requests[i].headline)
         /\ textElements'[1].id = now
         /\ activeTextElementId' = textElements'[1].id]_vars

\* C10 witness: the editor right after a generation, before any edit: the one
\* element carries the headline in upper case and is active.
C10_FreshSceneShown ==
  /\ EditorMounted
  /\ edits = 0
  /\ requests = <<>>
  /\ Len(textElements) = 1
  /\ textElements[1].text = <<"O", "I">>
  /\ activeTextElementId = textElements[1].id

\* The component's state apart from the clock, the calls in flight and the
\* count of gestures.
programVars == <<flowVars, textElements, activeTextElementId, keyVars, pointerVars, timers>>

\* C11 (as claimed): a style-panel update merges its argument into one element,
\* the active one, and leaves every other element, the order of the scene and
\* activeTextElementId as they were.
C11_MergesActiveOnly ==
  [][\A u \in EditorUpdates :
       handleUpdateActiveTextElement(u) =>
         /\ activeTextElementId' = activeTextElementId
         /\ Len(textElements') = Len(textElements)
         /\ \E a \in 1..Len(textElements) :
              /\ textElements[a].id = activeTextElementId
              /\ \A i \in 1..Len(textElements) :
                   textElements'[i] = IF i = a THEN Merge(textElements[i], u)
                                      ELSE textElements[i]]_vars

C13_DragMovesTargetOnly ==
  [][\A p \in EditorMoves :
       (WindowMouseMove(p) /\ dragInfo.isDragging
          /\ dragInfo.elementId \in Ids(textElements)) =>
         \E a \in 1..Len(textElements) :
           /\ textElements[a].id = dragInfo.elementId
           /\ \A i \in 1..Len(textElements) :
                textElements'[i] =
                  IF i = a
                  THEN [textElements[i] EXCEPT !.position =
                          [x |-> dragInfo.elementStartPos.x
                                   + (p.x - dragInfo.startPos.x) * K * K,
                           y |-> dragInfo.elementStartPos.y
                                   + (p.y - dragInfo.startPos.y) * K * K]]
                  ELSE textElements[i]]_vars

\* The de-rotated pointer delta of a resize move to p, times K.
RotatedDxK(p) ==
  (p.x - resizeInfo.startPos.x) * CosK(resizeInfo.startRotation)
    + (p.y - resizeInfo.startPos.y) * SinK(resizeInfo.startRotation)
RotatedDyK(p) ==
  (resizeInfo.startPos.x - p.x) * SinK(resizeInfo.startRotation)
    + (p.y - resizeInfo.startPos.y) * CosK(resizeInfo.startRotation)

\* The corner handles' signed sum c of the de-rotated delta, times K.
CornerChangeK(h, p) ==
  CASE h = "se" -> RotatedDxK(p) + RotatedDyK(p)
    [] h = "sw" -> RotatedDyK(p) - RotatedDxK(p)
    [] h = "ne" -> RotatedDxK(p) - RotatedDyK(p)
    [] h = "nw" -> (-RotatedDxK(p)) - RotatedDyK(p)

\* The width handle 'e' gives for a move to p.
EastWidth(p) == Max(MinWidth, Round(resizeInfo.startWidth * K + RotatedDxK(p), K))

\* C14 (as claimed): a pointer move during a resize session on a corner handle
\* leaves the session's element with fontSize = max(10, round(startFontSize +
\* c / 4)) and with the width and the position it had.
C14_CornerResizesFontOnly ==
  [][\A p \in EditorMoves :
       (WindowMouseMove(p) /\ resizeInfo.isResizing
          /\ resizeInfo.handle \in {"nw", "ne", "sw", "se"}) =>
         \A i \in 1..Len(textElements) :
           textElements[i].id = resizeInfo.elementId =>
             /\ textElements'[i].fontSize =
                  Max(MinFontSize,
                      Round(resizeInfo.startFontSize * FontSizeDivisor * K
                              + CornerChangeK(resizeInfo.handle, p),
                            FontSizeDivisor * K))
             /\ textElements'[i].width = textElements[i].width
             /\ textElements'[i].position = textElements[i].position]_vars

\* C15 (as claimed): a pointer move during a resize session on handle 'e'
\* leaves the session's element with width max(50, round(startWidth + dx')),
\* which is at least 50 and no smaller for a larger dx', and with the position
\* it had.
C15_EastResizesWidthOnly ==
  [][\A p \in EditorMoves :
       (WindowMouseMove(p) /\ resizeInfo.isResizing /\ resizeInfo.handle = "e") =>
         \A i \in 1..Len(textElements) :
           textElements[i].id = resizeInfo.elementId =>
             /\ textElements'[i].width = EastWidth(p)
             /\ textElements'[i].width >= MinWidth
             /\ \A q \in EditorMoves :
                  RotatedDxK(q) >= RotatedDxK(p) => EastWidth(q) >= EastWidth(p)
             /\ textElements'[i].position = textElements[i].position]_vars

\* The rotations a rotation control can give that the cosine table covers.
Rotations == {-45, -30, 0, 30, 45}

\* The scene with the rotation of the resize session's element set to r.
WithRotation(r) ==
  [i \in 1..Len(textElements) |->
     IF textElements[i].id = resizeInfo.elementId
     THEN [textElements[i] EXCEPT !.rotation = r]
     ELSE textElements[i]]

\* C16: while a resize session is under way, what a pointer move makes of the
\* fontSize, width and position of every element does not depend on the
\* rotation the session's element has at the move: the session de-rotates
\* with the rotation it captured at its start.
C16_RotationNotResampled ==
  resizeInfo.isResizing =>
    \A p \in EditorMoves, r \in Rotations :
      LET asIs == MoveAll(listeners, textElements, p)
          turned == MoveAll(listeners, WithRotation(r), p)
      IN  \A i \in 1..Len(textElements) :
            /\ turned[i].fontSize = asIs[i].fontSize
            /\ turned[i].width = asIs[i].width
            /\ turned[i].position = asIs[i].position

\* C16 witness: the session's element was rotated after the session captured
\* rotation 0, and its width is the one the 'e' handle gives for the move to
\* (130, 90) de-rotated by 0 degrees, 30 pixels more than at the start.
C16_RotatedMidSession ==
  /\ resizeInfo.isResizing
  /\ resizeInfo.handle = "e"
  /\ resizeInfo.startRotation = 0
  /\ SessionTarget # 0
  /\ textElements[SessionTarget].rotation = 30
  /\ textElements[SessionTarget].width = resizeInfo.startWidth + 30

\* The strings of a sequence joined with a separator between them.
RECURSIVE JoinWith(_, _)
JoinWith(strings, sep) ==
  IF strings = <<>> THEN <<>>
  ELSE IF Len(strings) = 1 THEN strings[1]
  ELSE strings[1] \o sep \o JoinWith(Tail(strings), sep)

\* The words of all the lines, in order.
RECURSIVE LinesWords(_)
LinesWords(lines) ==
  IF lines = <<>> THEN <<>>
  ELSE Split(Head(lines), " ") \o LinesWords(Tail(lines))

\* What C17 says of the lines the wrapper returns for one paragraph.
GreedyWholeWords(ctx, par, maxWidth) ==
  LET words == Split(par, " ")
      lines == getWrappedLines(ctx, par, maxWidth)
  IN  /\ LinesWords(lines) = words
      /\ \A k \in 1..Len(lines) :
           LET lineWords == Split(lines[k], " ")
           IN  /\ Len(lineWords) >= 2 => measureText(ctx, lines[k]) < maxWidth
               /\ k < Len(lines) =>
                    measureText(ctx, lines[k] \o <<" ">> \o Split(lines[k + 1], " ")[1])
                      >= maxWidth
               /\ (\E j \in 1..Len(lineWords) : measureText(ctx, lineWords[j]) > maxWidth)
                    => Len(lineWords) = 1

\* C17: for every element of the scene, every scale and every paragraph of the
\* element's text, the lines of the export wrapper are made of consecutive
\* whole words joined by single spaces, a line of several words measures
\* less than maxWidth, a line ends only where the next word would bring it to
\* maxWidth or beyond, and a word wider than maxWidth is alone on its line.
C17_WrapGreedyWholeWords ==
  \A i \in 1..Len(textElements), scale \in Scales :
    LET textEl == textElements[i]
        pars == Split(textEl.text, "\n")
    IN  \A n \in 1..Len(pars) :
          GreedyWholeWords(Context(textEl, scale), pars[n], 10 * textEl.width * scale.num)

\* C17 witness: an export drew the element of width 50 with the text
\* 'OI A / B A': the word OI, wider than the element, alone on the first
\* line and three more lines after it.
C17_WideWordDrawnAlone ==
  /\ Len(textElements) >= 1
  /\ textElements[1].width = 50
  /\ textElements[1].text = <<"O", "I", " ", "A", "\n", "B", " ", "A">>
  /\ \E j, k \in 1..Len(canvas) :
       /\ canvas[j].op = "strokeText" /\ canvas[j].el = 1 /\ canvas[j].line = 1
       /\ canvas[j].text = <<"O", "I">>
       /\ canvas[k].op = "strokeText" /\ canvas[k].el = 1 /\ canvas[k].line = 4

\* C18: for every element of the scene, every scale and every paragraph of the
\* element's text none of whose words is wider than maxWidth, the lines of
\* the export wrapper joined by single spaces are the paragraph.
C18_WrapRoundTrip ==
  \A i \in 1..Len(textElements), scale \in Scales :
    LET textEl == textElements[i]
        ctx == Context(textEl, scale)
        maxWidth == 10 * textEl.width * scale.num
        pars == Split(textEl.text, "\n")
    IN  \A n \in 1..Len(pars) :
          (\A w \in 1..Len(Split(pars[n], " ")) :
             measureText(ctx, Split(pars[n], " ")[w]) <= maxWidth)
            => JoinWith(getWrappedLines(ctx, pars[n], maxWidth), <<" ">>) = pars[n]

\* C18 witness: an export drew the text 'A B A B' of the element of width 100,
\* in which no word is wider than the element, on two lines 'A B'.
C18_TwoLinesDrawn ==
  /\ Len(textElements) >= 1
  /\ textElements[1].width = 100
  /\ textElements[1].text = <<"A", " ", "B", " ", "A", " ", "B">>
  /\ \E j, k \in 1..Len(canvas) :
       /\ canvas[j].op = "fillText" /\ canvas[j].el = 1 /\ canvas[j].line = 1
       /\ canvas[j].text = <<"A", " ", "B">>
       /\ canvas[k].op = "fillText" /\ canvas[k].el = 1 /\ canvas[k].line = 2
       /\ canvas[k].text = <<"A", " ", "B">>
  /\ \A j \in 1..Len(canvas) : canvas[j].el = 1 => canvas[j].line <= 2

\* C19 (as claimed): for every element of the scene and every scale, the lines
\* of the preview's layout are the lines of the export wrapper.
C19_PreviewLinesAreExportLines ==
  \A i \in 1..Len(textElements), scale \in Scales :
    PreviewLines(textElements[i]) = ExportLines(textElements[i], scale)

\* C20: in the calls of an export the image is drawn first and only once, the
\* calls of an element all come before those of every later element of the
\* scene, and every line is stroked and then at once filled.
C20_DrawOrder ==
  canvas # <<>> =>
    /\ canvas[1].op = "drawImage"
    /\ \A j \in 2..Len(canvas) : canvas[j].op # "drawImage" /\ canvas[j].el >= 1
    /\ \A j, k \in 1..Len(canvas) : j < k => canvas[j].el <= canvas[k].el
    /\ \A j \in 1..Len(canvas) :
         /\ canvas[j].op = "strokeText" =>
              (j < Len(canvas) /\ canvas[j + 1] = [canvas[j] EXCEPT !.op = "fillText"])
         /\ canvas[j].op = "fillText" =>
              (j > 1 /\ canvas[j - 1] = [canvas[j] EXCEPT !.op = "strokeText"])

\* C20 witness: an export drew two elements, the first on several lines.
C20_TwoElementsDrawn ==
  \E j, k \in 1..Len(canvas) :
    /\ canvas[j].op = "fillText" /\ canvas[j].el = 1 /\ canvas[j].line = 2
    /\ canvas[k].op = "fillText" /\ canvas[k].el = 2

\* The calls of element e with operation op among calls, in order.
CallsOf(calls, e, op) ==
  SelectSeq(calls, LAMBDA c : c.el = e /\ c.op = op)

\* The texts of the calls, in order.
TextsOf(calls) == [j \in 1..Len(calls) |-> calls[j].text]

\* C21: when an export is drawn, for every element of the exported scene the
\* font size, the letter spacing, the line width, the translation, the shadow
\* blur and the two shadow offsets set on the context are the element's
\* fontSize, letterSpacing, strokeWidth, position, shadowBlur and shadowOffsetX/Y
\* times the scale, each set exactly once, and the lines stroked are the
\* element's text wrapped at its width times the scale.
C21_GeometryScaled ==
  [][\A i \in 1..Len(loads) :
       ImageLoad(i) =>
         LET scale == loads[i].scale
             els == loads[i].textElements
         IN  \A e \in 1..Len(els) :
               LET One(op) == CallsOf(canvas', e, op)
               IN  /\ \A op \in {"font", "letterSpacing", "lineWidth", "translate",
                                 "shadowBlur", "shadowOffset"} : Len(One(op)) = 1
                   /\ One("font")[1].x = els[e].fontSize * scale.num
                   /\ One("letterSpacing")[1].x = els[e].letterSpacing * scale.num
                   /\ One("lineWidth")[1].x = els[e].strokeWidth * scale.num
                   /\ One("translate")[1].x = els[e].position.x * scale.num
                   /\ One("translate")[1].y = els[e].position.y * scale.num
                   /\ One("shadowBlur")[1].x = els[e].shadowBlur * scale.num
                   /\ One("shadowOffset")[1].x = els[e].shadowOffsetX * scale.num
                   /\ One("shadowOffset")[1].y = els[e].shadowOffsetY * scale.num
                   /\ TextsOf(One("strokeText")) =
                        WrapParagraphs([font |-> [fontFamily |-> els[e].fontFamily,
                                                  fontSize |-> els[e].fontSize * scale.num,
                                                  letterSpacing |->
                                                    els[e].letterSpacing * scale.num]],
                                       Split(els[e].text, "\n"), 1,
                                       10 * els[e].width * scale.num)]_vars

\* C21 witness: an export at scale 2 (font size 80 drawn at 160) drew the
\* default element, whose strokeWidth is 4, with line width 8, and offered the
\* file.
C21_StrokeFourDrawnEight ==
  /\ Len(textElements) >= 1
  /\ textElements[1].fontSize = 80
  /\ textElements[1].strokeWidth = 4
  /\ download # <<>>
  /\ Len(CallsOf(canvas, 1, "font")) = 1
  /\ CallsOf(canvas, 1, "font")[1].x = 160
  /\ CallsOf(canvas, 1, "lineWidth")[1].x = 8

\* C22 (as claimed): when the image of an export cannot be decoded, the
\* application's error state is set.
C22_DecodeFailureSetsError ==
  [][\A i \in 1..Len(loads) : ImageError(i) => error' # "null"]_vars

\* C23: the canvas of an export receives calls only when the export's image
\* has loaded; a file is offered only then, and it holds the image and every
\* element of the exported scene, drawn to the end; a click on the button
\* and a failed decoding offer no file.
C23_DecodeThenDraw ==
  [][/\ canvas' # canvas => \E i \in 1..Len(loads) : ImageLoad(i)
     /\ download' # download => \E i \in 1..Len(loads) : ImageLoad(i)
     /\ \A i \in 1..Len(loads) :
          ImageLoad(i) =>
            /\ download' = canvas'
            /\ download'[1].op = "drawImage"
            /\ \A e \in 1..Len(loads[i].textElements) :
                 /\ Len(CallsOf(download', e, "save")) = 1
                 /\ Len(CallsOf(download', e, "restore")) = 1
            /\ download'[Len(download')].op =
                 IF loads[i].textElements = <<>> THEN "drawImage" ELSE "restore"
     /\ \A i \in 1..Len(loads) : ImageError(i) => UNCHANGED <<canvas, download>>]_vars

\* C23 witness: a file was offered that holds the image and two elements,
\* and the image of a later export is still loading.
C23_FileOfferedAfterDrawing ==
  /\ download # <<>>
  /\ download = canvas
  /\ download[1].op = "drawImage"
  /\ Len(CallsOf(download, 2, "restore")) = 1
  /\ loads # <<>>

\* C24: the catch block run for a rejection of generateThumbnailPrompt (its
\* format error among the causes) leaves textElements and activeTextElementId
\* as they are: the elements, their order and the active id after the failure
\* are those before it, and no element is created.
C24_PromptFailureKeepsScene ==
  [][\A i \in 1..Len(requests) :
       (GenerateFailure(i) /\ requests[i].phase = "prompt") =>
         /\ textElements' = textElements
         /\ activeTextElementId' = activeTextElementId]_vars

\* C24 witness: a first generation failed before any prompt was stored (the
\* step is back at the upload, the error is shown, finalPrompt is still null)
\* and the scene is as empty as before the attempt.
C24_PromptFailedSceneUntouched ==
  /\ currentStep = "IMAGE_UPLOAD"
  /\ error = "api"
  /\ requests = <<>>
  /\ finalPrompt = "null"
  /\ selectedHeadline # <<>>
  /\ textElements = <<>>
  /\ activeTextElementId = NoId

\* C25 (as claimed): when a generation fails, currentStep returns to the step
\* the generation was started from: IMAGE_UPLOAD for a first generation,
\* TEXT_EDITING for a regeneration (one started from the editor, which is
\* shown only with an image).
C25_FailureReturnsToTrigger ==
  [][\A i \in 1..Len(requests) :
       GenerateFailure(i) =>
         currentStep' = IF generatedImage # NoImage THEN "TEXT_EDITING"
                        ELSE "IMAGE_UPLOAD"]_vars

\* What the mousemove handler of the listener pair l makes of els.
MoveOf(l, els, p) ==
  IF l.kind = "drag" THEN DragMove(l.id, els, p) ELSE ResizeMove(l.id, els, p)

\* Every session under way is one whose element has left the scene.
AllSessionsStale ==
  /\ listeners # <<>>
  /\ \A i \in 1..Len(listeners) : listeners[i].id \notin Ids(textElements)

\* C26: the mousemove handler of a drag or resize session whose elementId is
\* no longer in the scene returns the scene as it is (every remaining element,
\* their order, and no element more), and a mousemove event for which every
\* session under way is such a session leaves textElements and
\* activeTextElementId unchanged.
C26_StaleMovesIgnored ==
  [][/\ \A i \in 1..Len(listeners), p \in EditorMoves :
          listeners[i].id \notin Ids(textElements) =>
            MoveOf(listeners[i], textElements, p) = textElements
     /\ \A p \in EditorMoves :
          (WindowMouseMove(p) /\ AllSessionsStale) =>
            /\ textElements' = textElements
            /\ activeTextElementId' = activeTextElementId]_vars

\* C26 witness: a drag session is under way on an element that was removed,
\* an element remains in the scene at the position it was created at, and no
\* element is active.
C26_SessionOutlivesTarget ==
  /\ AllSessionsStale
  /\ dragInfo.isDragging
  /\ dragInfo.elementId \notin Ids(textElements)
  /\ activeTextElementId = NoId
  /\ Len(textElements) = 1
  /\ textElements[1].position = DefaultTextElement(1, <<>>).position

\* The box the drawn lines of textEl occupy in the translated frame, as the
\* canvas places text for ctx.textAlign and textBaseline 'top': a line of
\* width w drawn at drawX spans [drawX, drawX + w] for left, [drawX - w / 2,
\* drawX + w / 2] for center and [drawX - w, drawX] for right, and the lines
\* stack from 0 to the block height.  left and right are in 1/2 of the unit
\* of measureText, height in that unit.
DrawnBox(textEl, scale) ==
  LET ctx == [font |-> [fontFamily |-> textEl.fontFamily,
                        fontSize |-> textEl.fontSize * scale.num,
                        letterSpacing |-> textEl.letterSpacing * scale.num]]
      lines == ExportLines(textEl, scale)
      W(k) == measureText(ctx, lines[k])
      anchor == CASE textEl.textAlign = "center" -> 10 * textEl.width * scale.num
                  [] textEl.textAlign = "right" -> 20 * textEl.width * scale.num
                  [] OTHER -> 0
      Left(k) == CASE textEl.textAlign = "center" -> anchor - W(k)
                   [] textEl.textAlign = "right" -> anchor - 2 * W(k)
                   [] OTHER -> anchor
      Right(k) == CASE textEl.textAlign = "center" -> anchor + W(k)
                    [] textEl.textAlign = "right" -> anchor
                    [] OTHER -> anchor + 2 * W(k)
  IN  [left |-> CHOOSE m \in {Left(k) : k \in 1..Len(lines)} :
                  \A k \in 1..Len(lines) : m <= Left(k),
       right |-> CHOOSE m \in {Right(k) : k \in 1..Len(lines)} :
                   \A k \in 1..Len(lines) : m >= Right(k),
       height |-> (Len(lines) - 1) * textEl.fontSize * scale.num * textEl.lineHeight
                    + 10 * textEl.fontSize * scale.num]

\* C27 (as claimed): when an export is drawn, for every element with a
\* gradient, whatever its textAlign, the midpoint of the gradient segment is
\* the center of the box its drawn lines occupy, and both ends of the segment
\* lie on the border of that box.
C27_GradientCenteredOnBlock ==
  [][\A i \in 1..Len(loads) :
       ImageLoad(i) =>
         \A e \in 1..Len(loads[i].textElements) :
           loads[i].textElements[e].useGradient =>
             LET box == DrawnBox(loads[i].textElements[e], loads[i].scale)
                 from == CallsOf(canvas', e, "gradientFrom")[1]
                 to == CallsOf(canvas', e, "gradientTo")[1]
                 OnBorder(c) ==
                   /\ K * box.left <= c.x /\ c.x <= K * box.right
                   /\ 0 <= c.y /\ c.y <= 2 * K * box.height
                   /\ \/ c.x \in {K * box.left, K * box.right}
                      \/ c.y \in {0, 2 * K * box.height}
             IN  /\ from.x + to.x = K * (box.left + box.right)
                 /\ from.y + to.y = 2 * K * box.height
                 /\ OnBorder(from)
                 /\ OnBorder(to)]_vars

\* C28 (as claimed): when an export is drawn, for every element with a
\* gradient and gradientAngle 0 the segment starts at the top edge (y0 = 0)
\* with the first gradient color and ends at the bottom edge (y1 = block
\* height) with the second.
C28_ZeroIsTopToBottom ==
  [][\A i \in 1..Len(loads) :
       ImageLoad(i) =>
         \A e \in 1..Len(loads[i].textElements) :
           LET textEl == loads[i].textElements[e]
               box == DrawnBox(textEl, loads[i].scale)
               from == CallsOf(canvas', e, "gradientFrom")[1]
               to == CallsOf(canvas', e, "gradientTo")[1]
           IN  (textEl.useGradient /\ textEl.gradientAngle = 0) =>
                 /\ from.y = 0
                 /\ to.y = 2 * K * box.height
                 /\ from.text = <<textEl.gradientColor1>>
                 /\ to.text = <<textEl.gradientColor2>>]_vars

\* C28 (amended): the gradient angle is measured from the vertical with 0
\* degrees meaning bottom-to-top: for gradientAngle = 0 the segment starts at
\* the bottom edge (y0 = block height, first gradient color) and ends at the
\* top edge (y1 = 0, second gradient color), on the vertical through the
\* middle of the measured width; for gradientAngle = 180 it runs from the top
\* edge to the bottom edge, and for 90 from x = 0 to x = the measured width at
\* half the block height.
C28_ZeroIsBottomToTop ==
  [][\A i \in 1..Len(loads) :
       ImageLoad(i) =>
         \A e \in 1..Len(loads[i].textElements) :
           LET textEl == loads[i].textElements[e]
               box == DrawnBox(textEl, loads[i].scale)
               width == (box.right - box.left) \div 2
               from == CallsOf(canvas', e, "gradientFrom")[1]
               to == CallsOf(canvas', e, "gradientTo")[1]
           IN  textEl.useGradient =>
                 /\ from.text = <<textEl.gradientColor1>>
                 /\ to.text = <<textEl.gradientColor2>>
                 /\ textEl.gradientAngle = 0 =>
                      /\ from.y = 2 * K * box.height /\ to.y = 0
                      /\ from.x = K * width /\ to.x = K * width
                 /\ textEl.gradientAngle = 180 =>
                      /\ from.y = 0 /\ to.y = 2 * K * box.height
                      /\ from.x = K * width /\ to.x = K * width
                 /\ textEl.gradientAngle = 90 =>
                      /\ from.x = 0 /\ to.x = 2 * K * width
                      /\ from.y = K * box.height /\ to.y = K * box.height]_vars

\* C28 witness: an export drew an element with gradientAngle 0, its gradient
\* running up the vertical from the bottom edge to y = 0.
C28_GradientDrawnUpwards ==
  \E j, k \in 1..Len(canvas) :
    /\ canvas[j].op = "gradientFrom" /\ canvas[k].op = "gradientTo"
    /\ canvas[j].el = canvas[k].el
    /\ canvas[j].x = canvas[k].x
    /\ canvas[j].y > 0
    /\ canvas[k].y = 0

\* C29 (as claimed): at most one AI request is in flight, and isLoading is
\* true whenever one is.
C29_OneRequestLoadingShown ==
  /\ Len(requests) <= 1
  /\ requests # <<>> => isLoading

\* C30 (as claimed): when the state is the one handleReset leaves and the only
\* calls in flight are modifications (issued before the restart, the editor
\* being gone since), the success or failure of such a call leaves
\* generatedImage null, error null and textElements empty.
C30_RestartIsFinal ==
  [][\A i \in 1..Len(requests) :
       (/\ currentStep = "HEADLINE_INPUT"
        /\ generatedImage = NoImage
        /\ error = "null"
        /\ textElements = <<>>
        /\ ~isLoading
        /\ \A j \in 1..Len(requests) : requests[j].kind = "modify"
        /\ \/ ModifyFailure(i)
           \/ \E image \in ModifiedImages : ModifySuccess(i, image))
         => /\ generatedImage' = NoImage
            /\ error' = "null"
            /\ textElements' = <<>>]_vars

====
